---- MODULE Spec2Model ----
(***************************************************************************)
(* Model of advanced-vector/vector.h: RawMemory<T> (a raw storage block)   *)
(* and Vector<T> (a dynamic array built on it).                            *)
(*                                                                         *)
(* A block is a capacity and a function from slot index (0-based) to a     *)
(* slot.  A slot is the memory content (val) and a ghost flag (live) that  *)
(* is TRUE iff an element was constructed there and not destroyed since.   *)
(* Every operation of Vector is one action; the library algorithms it      *)
(* calls (std::destroy_n, std::uninitialized_copy_n, std::move, ...) are   *)
(* operators that walk the slots the way the algorithm does.               *)
(*                                                                         *)
(* Accesses the C++ standard leaves undefined (a slot outside the block,   *)
(* destroying or assigning raw memory, constructing over a live element,   *)
(* an iterator range whose first is past its last) are recorded in the     *)
(* set "bad" of the operation; an operation with a non-empty "bad" either  *)
(* goes on with the effects on its own block, or aborts the process.       *)
(*                                                                         *)
(* The element type T is one of two kinds, after CopyTo's if constexpr:    *)
(* "nothrow_move" (noexcept move constructor: reallocation moves, a moved  *)
(* from element holds MovedVal) and "copy" (reallocation copies, and a     *)
(* move is a copy).  Only copy construction throws: the input fail of an   *)
(* operation is the number of the copy construction that throws, counted   *)
(* within the call (0: none).  Value construction, moves, assignments and  *)
(* destructors do not throw.  fail = AllocFails: operator new throws.      *)
(*                                                                         *)
(* There are two objects, a and b.  Spec follows a alone; SpecTwo follows  *)
(* both, with b default-, size-, copy- or move-constructed, and with the   *)
(* assignments and Swap between them, and it follows the buffers: each     *)
(* object holds a buffer (blk); heap is the set of buffers allocated and   *)
(* not released.                                                           *)
(***************************************************************************)
EXTENDS Integers, Sequences, FiniteSets, TLC

\* ---- bounds of the model -------------------------------------------------
MaxCap == 4          \* largest capacity PushBack and Insert grow a block to
MaxReserve == 3      \* largest argument of Vector(n), Reserve(n) and Resize(n)
MaxVal == 1          \* element values passed by the caller are 1..MaxVal
MaxDefects == 0      \* operations are explored from vectors with at most this many
                     \* slots whose liveness disagrees with [0, size)
MaxPushCap == 8      \* largest capacity in the PushBack-only specification
MaxTwoCap == 2       \* largest capacity in the specification of two vectors

\* ---- memory contents -----------------------------------------------------
RawVal == -1         \* content of memory no element was constructed in
MovedVal == -2       \* content of an element that was moved from
DefaultVal == 0      \* T(): a value-constructed element
SizeModulus == 1073741824   \* size_t arithmetic wraps at this modulus (2^30 stands for 2^64)
AllocFails == -1     \* the value of fail for a call whose operator new throws

Values == 1..MaxVal
TKinds == {"nothrow_move", "copy"}

Max(a, b) == IF a > b THEN a ELSE b
SizeT(n) == n % SizeModulus

RawSlot == [val |-> RawVal, live |-> FALSE]

\* RawMemory(capacity): a block of capacity raw slots.  bad and lost collect
\* what happens to the block while an operation runs; buf tells which buffer
\* it is: the null pointer (Allocate(0)), one the operation allocated, or
\* the one the vector held when the operation began.
RawMemory(capacity) ==
    [cap |-> capacity, slots |-> [i \in 0..capacity-1 |-> RawSlot],
     bad |-> {}, lost |-> 0, buf |-> IF capacity = 0 THEN "null" ELSE "new"]

\* the block data_ of a vector, at the start of an operation
Mk(vec) == [cap |-> vec.cap, slots |-> vec.slots, bad |-> {}, lost |-> 0, buf |-> "own"]

InB(m, i) == i \in 0..m.cap-1
AddBad(m, flags) == [m EXCEPT !.bad = @ \cup flags]

\* new (p) T(val): placement construction in slot i
ConstructAt(m, i, val) ==
    IF ~InB(m, i) THEN AddBad(m, {"oob"})
    ELSE [m EXCEPT !.slots[i] = [val |-> val, live |-> TRUE],
                   !.bad = IF m.slots[i].live THEN @ \cup {"construct_live"} ELSE @,
                   !.lost = IF m.slots[i].live THEN @ + 1 ELSE @]

\* std::destroy_at(p)
DestroyAt(m, i) ==
    IF ~InB(m, i) THEN AddBad(m, {"oob"})
    ELSE [m EXCEPT !.slots[i] = RawSlot,
                   !.bad = IF m.slots[i].live THEN @ ELSE @ \cup {"destroy_raw"}]

\* *p = val: assignment to the element in slot i (does not start a lifetime)
AssignAt(m, i, val) ==
    IF ~InB(m, i) THEN AddBad(m, {"oob"})
    ELSE [m EXCEPT !.slots[i].val = val,
                   !.bad = IF m.slots[i].live THEN @ ELSE @ \cup {"assign_raw"}]

\* reading slot i
ReadAt(m, i) == IF InB(m, i) THEN m.slots[i].val ELSE RawVal
ReadBad(m, i) ==
    IF ~InB(m, i) THEN {"oob"}
    ELSE IF m.slots[i].live THEN {} ELSE {"read_raw"}

\* the state of slot i after T(std::move(*p)) or x = std::move(*p): a type
\* with a move constructor is left moved-from, a copy-only type is copied
MoveOut(m, i, kind) ==
    IF InB(m, i) /\ kind = "nothrow_move"
    THEN [m EXCEPT !.slots[i].val = MovedVal] ELSE m

\* number of live elements in the block
LiveCount(m) == Cardinality({i \in 0..m.cap-1 : m.slots[i].live})

\* ~RawMemory(): Deallocate frees the bytes and runs no destructor, so every
\* element still live in the block is lost
Deallocate(m) == m.lost + LiveCount(m)

\* std::destroy_n(first, n): slots first .. first+n-1, in order; the walk is
\* cut where it leaves the block for good
RECURSIVE DestroyFrom(_, _, _)
DestroyFrom(m, i, last) ==
    IF i >= last THEN m
    ELSE IF i >= m.cap THEN AddBad(m, {"oob"})
    ELSE DestroyFrom(DestroyAt(m, i), i + 1, last)

DestroyN(m, first, n) == DestroyFrom(m, first, first + n)

\* std::uninitialized_value_construct_n(first, n)
RECURSIVE ValueConstructFrom(_, _, _)
ValueConstructFrom(m, i, last) ==
    IF i >= last THEN m
    ELSE IF i >= m.cap THEN AddBad(m, {"oob"})
    ELSE ValueConstructFrom(ConstructAt(m, i, DefaultVal), i + 1, last)

UninitializedValueConstructN(m, first, n) == ValueConstructFrom(m, first, first + n)

\* std::uninitialized_copy_n(src + from, n, dst + pos).  j elements are
\* copied so far; when the k-th copy construction of the call throws, the
\* algorithm destroys the j elements it constructed and rethrows.
RECURSIVE UninitializedCopyStep(_, _, _, _, _, _, _)
UninitializedCopyStep(src, from, n, dst, pos, j, k) ==
    IF j >= n THEN [src |-> src, dst |-> dst, threw |-> FALSE]
    ELSE IF from + j >= src.cap /\ pos + j >= dst.cap
         THEN [src |-> src, dst |-> AddBad(dst, {"oob"}), threw |-> FALSE]
    ELSE IF k = j + 1
         THEN [src |-> src, dst |-> DestroyN(dst, pos, j), threw |-> TRUE]
    ELSE UninitializedCopyStep(src, from, n,
             ConstructAt(AddBad(dst, ReadBad(src, from + j)), pos + j, ReadAt(src, from + j)),
             pos, j + 1, k)

UninitializedCopyN(src, from, n, dst, pos, k) ==
    UninitializedCopyStep(src, from, n, dst, pos, 0, k)

\* std::uninitialized_move_n(src + from, n, dst + pos); the move constructor
\* of a "nothrow_move" type does not throw
RECURSIVE UninitializedMoveStep(_, _, _, _, _, _)
UninitializedMoveStep(src, from, n, dst, pos, j) ==
    IF j >= n THEN [src |-> src, dst |-> dst, threw |-> FALSE]
    ELSE IF from + j >= src.cap /\ pos + j >= dst.cap
         THEN [src |-> src, dst |-> AddBad(dst, {"oob"}), threw |-> FALSE]
    ELSE UninitializedMoveStep(MoveOut(src, from + j, "nothrow_move"), from, n,
             ConstructAt(AddBad(dst, ReadBad(src, from + j)), pos + j, ReadAt(src, from + j)),
             pos, j + 1)

UninitializedMoveN(src, from, n, dst, pos) ==
    UninitializedMoveStep(src, from, n, dst, pos, 0)

\* Vector::CopyTo(new_data, from, to, pos): moves when T is nothrow move
\* constructible, copies otherwise; k is the copy construction that throws
\* (0: none)
CopyTo(kind, data, new_data, from, to, pos, k) ==
    IF kind = "nothrow_move"
    THEN UninitializedMoveN(data, from, SizeT(to - from + SizeModulus), new_data, pos)
    ELSE UninitializedCopyN(data, from, SizeT(to - from + SizeModulus), new_data, pos, k)

\* SwapCopy destroying the old elements on the failure path too
SwapCopyDestroysOnThrow(kind, vec, new_data, k) ==
    LET t == CopyTo(kind, Mk(vec), new_data, 0, vec.size, 0, k)
    IN IF t.threw
       THEN [data |-> DestroyN(t.src, 0, vec.size), local |-> t.dst, threw |-> TRUE]
       ELSE [data |-> t.dst, local |-> DestroyN(t.src, 0, vec.size), threw |-> FALSE]

\* Vector::SwapCopy(new_data): data is the block left in data_, local the
\* block left in the caller's new_data
SwapCopy(kind, vec, new_data, k) ==
    LET t == CopyTo(kind, Mk(vec), new_data, 0, vec.size, 0, k)
    IN IF t.threw
       THEN [data |-> t.src, local |-> t.dst, threw |-> TRUE]
       ELSE [data |-> t.dst, local |-> DestroyN(t.src, 0, vec.size), threw |-> FALSE]

\* the result of an operation: the vector, the buffer its data_ holds, the
\* returned position (-1: none), whether it threw, what it did wrong, how
\* many elements it lost, its path
Outcome(data, size, ret, threw, bad, lost, path) ==
    [vec |-> [cap |-> data.cap, slots |-> data.slots, size |-> size], buf |-> data.buf,
     ret |-> ret, threw |-> threw, bad |-> bad, lost |-> lost, path |-> path]

\* Reserve growing geometrically: to at least twice the capacity
ReserveAtLeastDouble(kind, vec, new_capacity, k) ==
    IF new_capacity <= vec.cap
    THEN Outcome(Mk(vec), vec.size, -1, FALSE, {}, 0, "noop")
    ELSE IF k = AllocFails
    THEN Outcome(Mk(vec), vec.size, -1, TRUE, {}, 0, "alloc_failed")
    ELSE LET s == SwapCopy(kind, vec, RawMemory(Max(new_capacity, 2 * vec.cap)), k)
         IN Outcome(s.data, vec.size, -1, s.threw, s.data.bad \cup s.local.bad,
                    s.data.lost + Deallocate(s.local), "realloc")

\* Vector::Reserve(new_capacity)
Reserve(kind, vec, new_capacity, k) ==
    IF new_capacity <= vec.cap
    THEN Outcome(Mk(vec), vec.size, -1, FALSE, {}, 0, "noop")
    ELSE IF k = AllocFails
    THEN Outcome(Mk(vec), vec.size, -1, TRUE, {}, 0, "alloc_failed")
    ELSE LET s == SwapCopy(kind, vec, RawMemory(new_capacity), k)
         IN Outcome(s.data, vec.size, -1, s.threw, s.data.bad \cup s.local.bad,
                    s.data.lost + Deallocate(s.local), "realloc")

\* Resize destroying the first elements instead of the last ones
ResizeDestroysFromZero(kind, vec, new_size, k) ==
    IF new_size < vec.size
    THEN LET d == DestroyN(Mk(vec), 0, vec.size - new_size)
         IN Outcome(d, new_size, -1, FALSE, d.bad, d.lost, "shrink")
    ELSE LET r == Reserve(kind, vec, new_size, k)
             c == UninitializedValueConstructN([Mk(r.vec) EXCEPT !.buf = r.buf],
                                               new_size, new_size - vec.size)
         IN IF r.threw THEN r
            ELSE Outcome(c, new_size, -1, FALSE, r.bad \cup c.bad, r.lost + c.lost,
                         IF r.path = "realloc" THEN "grow_realloc" ELSE "grow")

\* Vector::Resize(new_size)
Resize(kind, vec, new_size, k) ==
    IF new_size < vec.size
    THEN LET d == DestroyN(Mk(vec), new_size, vec.size - new_size)
         IN Outcome(d, new_size, -1, FALSE, d.bad, d.lost, "shrink")
    ELSE LET r == Reserve(kind, vec, new_size, k)
             c == UninitializedValueConstructN([Mk(r.vec) EXCEPT !.buf = r.buf],
                                               new_size, new_size - vec.size)
         IN IF r.threw THEN r
            ELSE Outcome(c, new_size, -1, FALSE, r.bad \cup c.bad, r.lost + c.lost,
                         IF r.path = "realloc" THEN "grow_realloc" ELSE "grow")

\* growth by one slot instead of doubling
GrowCapacityByOne(size) == size + 1

\* the capacity PushBack, EmplaceBack, Insert and Emplace grow to
GrowCapacity(size) == IF size = 0 THEN 1 ELSE size * 2

\* EmplaceBack counting the new element before it allocates
EmplaceBackCountsFirst(kind, vec, val, fail) ==
    IF vec.size = vec.cap /\ fail = AllocFails
    THEN Outcome(Mk(vec), SizeT(vec.size + 1), -1, TRUE, {}, 0, "alloc_failed")
    ELSE IF vec.size = vec.cap
    THEN LET new_data == RawMemory(GrowCapacity(vec.size))
             placed == ConstructAt(new_data, vec.size, val)
             s == SwapCopy(kind, vec, placed, fail - 1)
         IN IF fail = 1
            THEN Outcome(Mk(vec), vec.size, -1, TRUE, {}, Deallocate(new_data), "realloc")
            ELSE Outcome(s.data, IF s.threw THEN vec.size ELSE SizeT(vec.size + 1),
                         IF s.threw THEN -1 ELSE vec.size, s.threw,
                         s.data.bad \cup s.local.bad,
                         s.data.lost + Deallocate(s.local), "realloc")
    ELSE LET c == ConstructAt(Mk(vec), vec.size, val)
         IN IF fail = 1
            THEN Outcome(Mk(vec), vec.size, -1, TRUE, {}, 0, "inplace")
            ELSE Outcome(c, SizeT(vec.size + 1), vec.size, FALSE, c.bad, c.lost, "inplace")

\* Vector::EmplaceBack(args...) (PushBack forwards to it).  fail = 1: the
\* construction of the new element throws; fail = j + 1: the j-th copy of an
\* existing element throws.
EmplaceBack(kind, vec, val, fail) ==
    IF vec.size = vec.cap /\ fail = AllocFails
    THEN Outcome(Mk(vec), vec.size, -1, TRUE, {}, 0, "alloc_failed")
    ELSE IF vec.size = vec.cap
    THEN LET new_data == RawMemory(GrowCapacity(vec.size))
             placed == ConstructAt(new_data, vec.size, val)
             s == SwapCopy(kind, vec, placed, fail - 1)
         IN IF fail = 1
            THEN Outcome(Mk(vec), vec.size, -1, TRUE, {}, Deallocate(new_data), "realloc")
            ELSE Outcome(s.data, IF s.threw THEN vec.size ELSE SizeT(vec.size + 1),
                         IF s.threw THEN -1 ELSE vec.size, s.threw,
                         s.data.bad \cup s.local.bad,
                         s.data.lost + Deallocate(s.local), "realloc")
    ELSE LET c == ConstructAt(Mk(vec), vec.size, val)
         IN IF fail = 1
            THEN Outcome(Mk(vec), vec.size, -1, TRUE, {}, 0, "inplace")
            ELSE Outcome(c, SizeT(vec.size + 1), vec.size, FALSE, c.bad, c.lost, "inplace")

\* Vector::PopBack()
PopBack(vec) ==
    IF vec.size = 0
    THEN Outcome(Mk(vec), vec.size, -1, FALSE, {}, 0, "noop")
    ELSE LET d == DestroyAt(Mk(vec), vec.size - 1)
         IN Outcome(d, vec.size - 1, -1, FALSE, d.bad, d.lost, "pop")

\* the shift to the right done first to last: each element overwrites the
\* next one before it was moved
RECURSIVE MoveRightForwardStep(_, _, _, _, _)
MoveRightForwardStep(m, first, last, d_first, kind) ==
    IF first >= last \/ first >= m.cap THEN m
    ELSE MoveRightForwardStep(
             MoveOut(AssignAt(AddBad(m, ReadBad(m, first)), d_first, ReadAt(m, first)),
                     first, kind),
             first + 1, last, d_first + 1, kind)

MoveBackwardFirstToLast(m, first, last, d_last, kind) ==
    MoveRightForwardStep(m, first, last, first + (d_last - last), kind)

\* std::move_backward(first, last, d_last) inside one block, last to first:
\* *(--d_last) = std::move(*(--last))
RECURSIVE MoveBackwardStep(_, _, _, _, _)
MoveBackwardStep(m, first, last, d_last, kind) ==
    IF last <= first THEN m
    ELSE MoveBackwardStep(
             MoveOut(AssignAt(AddBad(m, ReadBad(m, last - 1)), d_last - 1, ReadAt(m, last - 1)),
                     last - 1, kind),
             first, last - 1, d_last - 1, kind)

MoveBackward(m, first, last, d_last, kind) ==
    IF last > m.cap
    THEN MoveBackwardStep(AddBad(m, {"oob"}), first, m.cap, d_last - (last - m.cap), kind)
    ELSE MoveBackwardStep(m, first, last, d_last, kind)

\* std::move(first, last, d_first) inside one block, first to last:
\* *d_first++ = std::move(*first++).  A range whose first is past its last
\* is not a range: nothing is moved, or the process aborts.
RECURSIVE MoveForwardStep(_, _, _, _, _)
MoveForwardStep(m, first, last, d_first, kind) ==
    IF first >= last THEN m
    ELSE IF first >= m.cap /\ d_first >= m.cap THEN AddBad(m, {"oob"})
    ELSE MoveForwardStep(
             MoveOut(AssignAt(AddBad(m, ReadBad(m, first)), d_first, ReadAt(m, first)),
                     first, kind),
             first + 1, last, d_first + 1, kind)

MoveForward(m, first, last, d_first, kind) ==
    IF first > last THEN AddBad(m, {"bad_range"})
    ELSE MoveForwardStep(m, first, last, d_first, kind)

\* the range test without its upper bound
InRangeFromBegin(vec, pos) == pos >= 0

\* pos >= begin() && pos <= end(), with pos given as an offset from begin()
InRange(vec, pos) == pos >= 0 /\ pos <= vec.size

\* Emplace whose handler for a failure in the suffix destroys idx elements
\* of the new block, one short of the new element
EmplaceSuffixCatchShort(kind, vec, pos, val, fail) ==
    IF InRange(vec, pos)
    THEN LET idx == pos IN
         IF vec.size = vec.cap /\ fail = AllocFails
         THEN Outcome(Mk(vec), vec.size, -1, TRUE, {}, 0, "alloc_failed")
         ELSE IF vec.size = vec.cap
         THEN LET new_data == RawMemory(GrowCapacity(vec.size))
                  placed == ConstructAt(new_data, idx, val)
                  t1 == CopyTo(kind, Mk(vec), placed, 0, idx, 0, fail - 1)
                  c1 == DestroyAt(t1.dst, idx)
                  t2 == CopyTo(kind, t1.src, t1.dst, idx, vec.size, idx + 1, fail - 1 - idx)
                  c2 == DestroyN(t2.dst, 0, idx)
                  old == DestroyN(t2.src, 0, vec.size)
              IN IF fail = 1
                 THEN Outcome(Mk(vec), vec.size, -1, TRUE, {}, Deallocate(new_data), "realloc")
                 ELSE IF t1.threw
                 THEN Outcome(t1.src, vec.size, -1, TRUE, t1.src.bad \cup c1.bad,
                              t1.src.lost + Deallocate(c1), "realloc")
                 ELSE IF t2.threw
                 THEN Outcome(t2.src, vec.size, -1, TRUE, t2.src.bad \cup c2.bad,
                              t2.src.lost + Deallocate(c2), "realloc")
                 ELSE Outcome(t2.dst, SizeT(vec.size + 1), idx, FALSE, t2.dst.bad \cup old.bad,
                              t2.dst.lost + Deallocate(old), "realloc")
         ELSE LET sh == MoveBackward(Mk(vec), idx, vec.size, vec.size + 1, kind)
                  c == ConstructAt(sh, idx, val)
              IN IF fail = 1
                 THEN Outcome(Mk(vec), vec.size, -1, TRUE, {}, 0, "inplace")
                 ELSE IF fail = 2 /\ kind = "copy"
                 THEN Outcome(sh, vec.size, -1, TRUE, sh.bad, sh.lost, "inplace")
                 ELSE Outcome(c, SizeT(vec.size + 1), idx, FALSE, c.bad, c.lost, "inplace")
    ELSE Outcome(Mk(vec), vec.size, vec.size, FALSE, {}, 0, "rejected")

\* Vector::Emplace(pos, args...) (Insert forwards to it).  fail = 1: the
\* construction of the new element (or of tmp) throws; on the growth path
\* fail = j + 1: the j-th copy of an existing element throws; on the in-place
\* path fail = 2: the construction from tmp throws (copy-only type).
Emplace(kind, vec, pos, val, fail) ==
    IF InRange(vec, pos)
    THEN LET idx == pos IN
         IF vec.size = vec.cap /\ fail = AllocFails
         THEN Outcome(Mk(vec), vec.size, -1, TRUE, {}, 0, "alloc_failed")
         ELSE IF vec.size = vec.cap
         THEN LET new_data == RawMemory(GrowCapacity(vec.size))
                  placed == ConstructAt(new_data, idx, val)
                  t1 == CopyTo(kind, Mk(vec), placed, 0, idx, 0, fail - 1)
                  c1 == DestroyAt(t1.dst, idx)
                  t2 == CopyTo(kind, t1.src, t1.dst, idx, vec.size, idx + 1, fail - 1 - idx)
                  c2 == DestroyN(t2.dst, 0, idx + 1)
                  old == DestroyN(t2.src, 0, vec.size)
              IN IF fail = 1
                 THEN Outcome(Mk(vec), vec.size, -1, TRUE, {}, Deallocate(new_data), "realloc")
                 ELSE IF t1.threw
                 THEN Outcome(t1.src, vec.size, -1, TRUE, t1.src.bad \cup c1.bad,
                              t1.src.lost + Deallocate(c1), "realloc")
                 ELSE IF t2.threw
                 THEN Outcome(t2.src, vec.size, -1, TRUE, t2.src.bad \cup c2.bad,
                              t2.src.lost + Deallocate(c2), "realloc")
                 ELSE Outcome(t2.dst, SizeT(vec.size + 1), idx, FALSE, t2.dst.bad \cup old.bad,
                              t2.dst.lost + Deallocate(old), "realloc")
         ELSE LET sh == MoveBackward(Mk(vec), idx, vec.size, vec.size + 1, kind)
                  c == ConstructAt(sh, idx, val)
              IN IF fail = 1
                 THEN Outcome(Mk(vec), vec.size, -1, TRUE, {}, 0, "inplace")
                 ELSE IF fail = 2 /\ kind = "copy"
                 THEN Outcome(sh, vec.size, -1, TRUE, sh.bad, sh.lost, "inplace")
                 ELSE Outcome(c, SizeT(vec.size + 1), idx, FALSE, c.bad, c.lost, "inplace")
    ELSE Outcome(Mk(vec), vec.size, vec.size, FALSE, {}, 0, "rejected")

\* Erase without the shift of the tail
EraseWithoutShift(kind, vec, pos) ==
    IF InRange(vec, pos)
    THEN LET idx == pos
             d == DestroyAt(Mk(vec), idx)
         IN Outcome(d, SizeT(vec.size - 1 + SizeModulus), idx, FALSE, d.bad, d.lost, "erase")
    ELSE Outcome(Mk(vec), vec.size, vec.size, FALSE, {}, 0, "rejected")

\* Erase without the decrement of size_
EraseKeepsSize(kind, vec, pos) ==
    IF InRange(vec, pos)
    THEN LET idx == pos
             d == DestroyAt(Mk(vec), idx)
             sh == MoveForward(d, idx + 1, vec.size, idx, kind)
         IN Outcome(sh, vec.size, idx, FALSE, sh.bad, sh.lost, "erase")
    ELSE Outcome(Mk(vec), vec.size, vec.size, FALSE, {}, 0, "rejected")

\* Vector::Erase(pos)
Erase(kind, vec, pos) ==
    IF InRange(vec, pos)
    THEN LET idx == pos
             d == DestroyAt(Mk(vec), idx)
             sh == MoveForward(d, idx + 1, vec.size, idx, kind)
         IN Outcome(sh, SizeT(vec.size - 1 + SizeModulus), idx, FALSE, sh.bad, sh.lost, "erase")
    ELSE Outcome(Mk(vec), vec.size, vec.size, FALSE, {}, 0, "rejected")

\* Vector::~Vector() followed by ~RawMemory()
Destructor(vec) ==
    LET d == DestroyN(Mk(vec), 0, vec.size)
    IN Outcome(RawMemory(0), 0, -1, FALSE, d.bad, Deallocate(d), "destroyed")

\* std::copy_n(src, n, dst): dst[i] = src[i] for i = 0 .. n-1, in order
RECURSIVE CopyStep(_, _, _, _)
CopyStep(src, n, dst, j) ==
    IF j >= n THEN dst
    ELSE CopyStep(src, n, AssignAt(AddBad(dst, ReadBad(src, j)), j, ReadAt(src, j)), j + 1)

CopyN(src, n, dst) == CopyStep(src, n, dst, 0)

\* a copy constructor that copies the pointer: the new object holds the
\* buffer of other
CopyConstructShallow(other, k) ==
    IF other.size # 0 /\ k = AllocFails
    THEN Outcome(RawMemory(0), 0, -1, TRUE, {}, 0, "alloc_failed")
    ELSE Outcome([Mk(other) EXCEPT !.buf = "peer"], other.size, -1, FALSE, {}, 0, "copy_ctor")

\* Vector(const Vector& other): a block of other.size_ slots, filled with
\* copies.  When a copy throws the object does not come to exist and the
\* member data_ releases the block.
CopyConstruct(other, k) ==
    IF other.size # 0 /\ k = AllocFails
    THEN Outcome(RawMemory(0), 0, -1, TRUE, {}, 0, "alloc_failed")
    ELSE LET t == UninitializedCopyN(Mk(other), 0, other.size, RawMemory(other.size), 0, k)
         IN IF t.threw
            THEN Outcome(RawMemory(0), 0, -1, TRUE, t.dst.bad, Deallocate(t.dst), "copy_ctor")
            ELSE Outcome(t.dst, other.size, -1, FALSE, t.dst.bad, t.dst.lost, "copy_ctor")

\* Vector::CopyFrom(rhs): assigns over the common prefix, then destroys the
\* surplus or copy-constructs the missing elements
CopyFrom(vec, rhs, k) ==
    LET cp_size == IF vec.size < rhs.size THEN vec.size ELSE rhs.size
        it == CopyN(Mk(rhs), cp_size, Mk(vec))
        d == DestroyN(it, cp_size, vec.size - cp_size)
        u == UninitializedCopyN(Mk(rhs), cp_size, rhs.size - cp_size, it, cp_size, k)
    IN IF vec.size > rhs.size
       THEN Outcome(d, rhs.size, -1, FALSE, d.bad, d.lost, "copy_from")
       ELSE IF u.threw
       THEN Outcome(u.dst, vec.size, -1, TRUE, u.dst.bad, u.dst.lost, "copy_from")
       ELSE Outcome(u.dst, rhs.size, -1, FALSE, u.dst.bad, u.dst.lost, "copy_from")

\* copy assignment that always builds a copy and swaps with it
CopyAssignAlwaysDeep(vec, rhs, self, k) ==
    IF self THEN Outcome(Mk(vec), vec.size, -1, FALSE, {}, 0, "self")
    ELSE LET rhs_copy == CopyConstruct(rhs, k)
             old == DestroyN(Mk(vec), 0, vec.size)
         IN IF rhs_copy.threw
            THEN Outcome(Mk(vec), vec.size, -1, TRUE, rhs_copy.bad, rhs_copy.lost,
                         rhs_copy.path)
            ELSE Outcome([Mk(rhs_copy.vec) EXCEPT !.buf = rhs_copy.buf], rhs.size, -1, FALSE,
                         rhs_copy.bad \cup old.bad, rhs_copy.lost + Deallocate(old), "deep")

\* Vector::operator=(const Vector& rhs); self: this == &rhs.  With
\* rhs.size_ > Capacity() it swaps with a copy of rhs, whose destructor then
\* destroys the old elements and releases the old block.
CopyAssign(vec, rhs, self, k) ==
    IF self THEN Outcome(Mk(vec), vec.size, -1, FALSE, {}, 0, "self")
    ELSE IF rhs.size > vec.cap
    THEN LET rhs_copy == CopyConstruct(rhs, k)
             old == DestroyN(Mk(vec), 0, vec.size)
         IN IF rhs_copy.threw
            THEN Outcome(Mk(vec), vec.size, -1, TRUE, rhs_copy.bad, rhs_copy.lost,
                         rhs_copy.path)
            ELSE Outcome([Mk(rhs_copy.vec) EXCEPT !.buf = rhs_copy.buf], rhs.size, -1, FALSE,
                         rhs_copy.bad \cup old.bad, rhs_copy.lost + Deallocate(old), "deep")
    ELSE CopyFrom(vec, rhs, k)

\* Vector(): data_ is the null block, size_ is 0
VectorDefault == [cap |-> 0, slots |-> RawMemory(0).slots, size |-> 0]

\* Vector(size): a block of size slots, all value-constructed
VectorSized(size) ==
    LET c == UninitializedValueConstructN(RawMemory(size), 0, size)
    IN [cap |-> c.cap, slots |-> c.slots, size |-> size]

\* Vector(size) as a call: the new object's block and elements
SizedConstruct(size) ==
    LET c == UninitializedValueConstructN(RawMemory(size), 0, size)
    IN Outcome(c, size, -1, FALSE, c.bad, c.lost, "ctor")

\* Swap exchanging data_ but not size_
SwapDataOnly(this, other) ==
    [this |-> [vec |-> [other.vec EXCEPT !.size = this.vec.size], blk |-> other.blk],
     other |-> [vec |-> [this.vec EXCEPT !.size = other.vec.size], blk |-> this.blk]]

\* Vector::Swap(other): data_.Swap(other.data_) exchanges buffer_ and
\* capacity_, std::swap exchanges size_.  this and other are [vec, blk]: a
\* vector and the buffer it holds.
Swap(this, other) ==
    [this |-> [vec |-> other.vec, blk |-> other.blk],
     other |-> [vec |-> this.vec, blk |-> this.blk]]

\* Vector(Vector&& other): a default-constructed object swapped with other
MoveConstruct(other) == Swap([vec |-> VectorDefault, blk |-> 0], other)

\* Vector::operator=(Vector&& rhs); self: this == &rhs
MoveAssign(this, rhs, self) ==
    IF self THEN [this |-> this, other |-> rhs] ELSE Swap(this, rhs)

\* ---- state ---------------------------------------------------------------
VARIABLES
    v,        \* the Vector a: [cap, slots, size]
    w,        \* the Vector b, a second object (VectorDefault while it does not exist)
    tkind,    \* the element type T: "nothrow_move" or "copy" (CopyTo's if constexpr)
    pc,       \* "run", "aborted" (undefined behaviour ended the process),
              \* "destroyed" (a was destroyed)
    wlife,    \* b: "none" (not constructed), "alive", "destroyed"
    blk,      \* the buffer_ of a and of b: 0 is the null pointer; buffers are
              \* named up to renaming (see Rename)
    heap,     \* the buffers operator new returned and operator delete did not get
    npush,    \* k when the history is Vector() and k completed PushBack, else -1
    last      \* the last call: the object it was made on (on), its arguments
              \* (from: the other object involved; fail: the copy construction
              \* that threw, or AllocFails) and result; rt: it was an Erase at
              \* the position of the Insert completed right before it (that
              \* Insert's path), or "none"

vars == <<v, w, tkind, pc, wlife, blk, heap, npush, last>>

NoOp == [op |-> "Vector", on |-> "a", from |-> "none", arg |-> -1, val |-> 0, fail |-> 0,
         ret |-> -1, threw |-> FALSE, bad |-> {}, lost |-> 0, path |-> "ctor",
         rt |-> "none"]

\* a is Vector() (n = -1) or Vector(n); b does not exist
InitUpTo(bound) ==
    /\ tkind \in TKinds
    /\ pc = "run"
    /\ w = VectorDefault
    /\ wlife = "none"
    /\ \E n \in -1..bound :
          /\ v = IF n = -1 THEN VectorDefault ELSE VectorSized(n)
          /\ npush = IF n = -1 THEN 0 ELSE -1
          /\ last = [NoOp EXCEPT !.arg = n]

\* a alone: its buffer is not followed
Init ==
    /\ InitUpTo(MaxReserve)
    /\ blk = [a |-> 0, b |-> 0]
    /\ heap = {}

\* the copy constructions that can throw (none for 0), or the allocation
Fails == {AllocFails} \cup 0..MaxCap + 1

Obj(x) == IF x = "a" THEN v ELSE w
Peer(x) == IF x = "a" THEN "b" ELSE "a"

\* what operator new returns: a buffer that is not allocated and that no
\* vector holds (the buffers in use are named 1 .. 2 + Cardinality(heap) at
\* most, see Rename)
NewBlock == Cardinality(heap) + 3

\* a call allocated a buffer when its data_ ends up in a new one, or when
\* it threw after RawMemory(n) or Vector(rhs) had allocated it
Allocates(o) ==
    o.buf = "new" \/ (o.threw /\ o.path \in {"realloc", "grow_realloc", "copy_ctor"})

\* release only of the buffer a successful call replaced
ReleasedOnAdoptionOnly(old, held, new, alloc) ==
    IF held # old THEN old ELSE 0

\* ~RawMemory() of the call's local block (new_data, rhs_copy's data_) or of
\* the destroyed vector's data_: it gets the old buffer when data_ was
\* swapped or destroyed, and the new buffer when the call threw before the
\* swap.  0: nothing to release.
Released(old, held, new, alloc) ==
    IF held # old THEN old ELSE IF alloc THEN new ELSE 0

\* buffers have no meaning beyond their identity: a's is named 1, b's is
\* named 2 (1 when it is a's), those no vector holds 3, 4, ...
Rename(bk, h) ==
    LET na == IF bk.a = 0 THEN 0 ELSE 1
        nb == IF bk.b = 0 THEN 0 ELSE IF bk.b = bk.a THEN 1 ELSE 2
    IN [blk |-> [a |-> na, b |-> nb],
        heap |-> (IF bk.a \in h THEN {na} ELSE {}) \cup (IF bk.b \in h THEN {nb} ELSE {})
                 \cup (3..2 + Cardinality(h \ {bk.a, bk.b}))]

\* the buffer data_ of x holds after a call with outcome o: its old buffer,
\* the null pointer, the new buffer or the buffer of the other object
Held(x, o, new) ==
    IF o.buf = "new" THEN new
    ELSE IF o.buf = "null" THEN 0
    ELSE IF o.buf = "peer" THEN blk[Peer(x)] ELSE blk[x]

\* the buffers allocated after a call with outcome o that released rel
HeapAfter(o, new, rel) == (IF Allocates(o) THEN heap \cup {new} ELSE heap) \ {rel}

\* what a call that released rel did wrong with buffers
BadRelease(x, o, new, rel) ==
    (IF rel # 0 /\ rel # new /\ rel \notin heap THEN {"double_free"} ELSE {})
    \cup (IF blk[x] # 0 /\ blk[x] \notin heap THEN {"use_after_free"} ELSE {})

\* the objects and the buffers after a call on x with outcome o, which left
\* the buffer held in data_; r is the renamed buffers.  An object that holds
\* the buffer x wrote to sees what x wrote.
After(x, o, held, r, bad) ==
    IF x = "a"
    THEN [a |-> o.vec,
          b |-> IF held # 0 /\ blk.b = held THEN [w EXCEPT !.slots = o.vec.slots] ELSE w,
          blk |-> r.blk, heap |-> r.heap, bad |-> bad]
    ELSE [a |-> IF held # 0 /\ blk.a = held THEN [v EXCEPT !.slots = o.vec.slots] ELSE v,
          b |-> o.vec,
          blk |-> r.blk, heap |-> r.heap, bad |-> bad]

\* the objects and the buffers after an exchange s of a (this) and b (other)
AfterSwap(s) ==
    LET r == Rename([a |-> s.this.blk, b |-> s.other.blk], heap)
    IN [a |-> s.this.vec, b |-> s.other.vec, blk |-> r.blk, heap |-> r.heap, bad |-> {}]

\* the state takes the result post of a call; a call that did something
\* undefined may instead end the process, and the objects with it
Commit(post, to) ==
    /\ pc' \in IF post.bad = {} THEN {to} ELSE {to, "aborted"}
    /\ v' = IF pc' = "aborted" THEN VectorDefault ELSE post.a
    /\ w' = IF pc' = "aborted" THEN VectorDefault ELSE post.b
    /\ blk' = IF pc' = "aborted" THEN [a |-> 0, b |-> 0] ELSE post.blk
    /\ heap' = IF pc' = "aborted" THEN {} ELSE post.heap
    /\ UNCHANGED tkind

\* one call on the object x, with outcome o
StepOn(x, op, arg, from, val, fail, outcome) ==
    \E o \in {outcome}, new \in {NewBlock} : \E held \in {Held(x, o, new)} :
    \E rel \in {Released(blk[x], held, new, Allocates(o))} :
    \E r \in {Rename([blk EXCEPT ![x] = held], HeapAfter(o, new, rel))} :
    \E post \in {After(x, o, held, r, o.bad \cup BadRelease(x, o, new, rel))} :
       /\ Commit(post, pc)
       /\ last' = [op |-> op, on |-> x, from |-> from, arg |-> arg, val |-> val,
                   fail |-> IF o.threw THEN fail ELSE 0, ret |-> o.ret,
                   threw |-> o.threw, bad |-> post.bad, lost |-> o.lost, path |-> o.path,
                   rt |-> "none"]

\* one call on a, alone: the vector takes the outcome o; a call that did
\* something undefined may instead end the process, and the vector with it
Step(op, arg, val, fail, o) ==
    /\ pc' \in IF o.bad = {} THEN {"run"} ELSE {"run", "aborted"}
    /\ v' = IF pc' = "run" THEN o.vec ELSE VectorDefault
    /\ last' = [op |-> op, on |-> "a", from |-> "none", arg |-> arg, val |-> val,
                fail |-> IF o.threw THEN fail ELSE 0, ret |-> o.ret,
                threw |-> o.threw, bad |-> o.bad, lost |-> o.lost, path |-> o.path,
                rt |-> IF /\ op = "Erase" /\ last.op = "Insert" /\ arg = last.arg
                          /\ ~last.threw /\ last.path \in {"inplace", "realloc"}
                       THEN last.path ELSE "none"]
    /\ UNCHANGED <<tkind, w, wlife, blk, heap>>

\* the slots whose liveness is not what the range [0, size) says
Defects(vec) == {i \in 0..vec.cap - 1 : vec.slots[i].live # (i < vec.size)}

\* operations are explored from the states whose size_ has not wrapped (past
\* that, every operation walks outside the block) and whose block has at most
\* MaxDefects misplaced slots
Running ==
    /\ pc = "run"
    /\ v.size <= v.cap
    /\ Cardinality(Defects(v)) <= MaxDefects

\* the positions passed to Insert and Erase, as offsets from begin(): every
\* position of [begin, end] and the nearest one outside on either side
Positions(vec) == -1..vec.size + 1

DoReserve ==
    /\ Running
    /\ \E n \in {0, v.cap} \cup (v.cap + 1..MaxReserve), fail \in Fails :
          /\ \/ fail = 0
             \/ fail = AllocFails /\ n > v.cap
             \/ fail >= 1 /\ tkind = "copy" /\ n > v.cap /\ fail <= v.size
          /\ Step("Reserve", n, 0, fail, Reserve(tkind, v, n, fail))
    /\ npush' = -1

DoResize ==
    /\ Running
    /\ \E n \in 0..MaxReserve, fail \in Fails :
          /\ \/ fail = 0
             \/ fail = AllocFails /\ n >= v.size /\ n > v.cap
             \/ fail >= 1 /\ tkind = "copy" /\ n >= v.size /\ n > v.cap /\ fail <= v.size
          /\ Step("Resize", n, 0, fail, Resize(tkind, v, n, fail))
    /\ npush' = -1

\* PushBack(value), with blocks of at most bound slots
PushBackUpTo(bound) ==
    /\ Running
    /\ v.size = v.cap => GrowCapacity(v.size) <= bound
    /\ \E val \in Values, fail \in AllocFails..bound + 1 :
          /\ \/ fail \in {0, 1}
             \/ fail = AllocFails /\ v.size = v.cap
             \/ fail >= 2 /\ tkind = "copy" /\ v.size = v.cap /\ fail <= v.size + 1
          /\ Step("PushBack", v.size, val, fail, EmplaceBack(tkind, v, val, fail))
          /\ npush' = IF npush >= 0 /\ fail = 0 THEN npush + 1 ELSE npush

DoPushBack == PushBackUpTo(MaxCap)

DoPopBack ==
    /\ Running
    /\ Step("PopBack", -1, 0, 0, PopBack(v))
    /\ npush' = -1

\* Insert(pos, value); pos is an offset from begin(), in or out of range
DoInsert ==
    /\ Running
    /\ v.size = v.cap => GrowCapacity(v.size) <= MaxCap
    /\ \E pos \in Positions(v), val \in Values, fail \in Fails :
          /\ \/ fail = 0
             \/ InRange(v, pos) /\ fail = 1
             \/ InRange(v, pos) /\ fail = AllocFails /\ v.size = v.cap
             \/ InRange(v, pos) /\ fail >= 2 /\ tkind = "copy" /\ v.size = v.cap
                /\ fail <= v.size + 1
             \/ InRange(v, pos) /\ tkind = "copy" /\ v.size # v.cap /\ fail = 2
          /\ Step("Insert", pos, val, fail, Emplace(tkind, v, pos, val, fail))
    /\ npush' = -1

DoErase ==
    /\ Running
    /\ \E pos \in Positions(v) :
          Step("Erase", pos, 0, 0, Erase(tkind, v, pos))
    /\ npush' = -1

\* ~Vector() of x
DestroyOn(x) ==
    \E o \in {Destructor(Obj(x))} :
    \E r \in {Rename([blk EXCEPT ![x] = 0], HeapAfter(o, 0, blk[x]))} :
    \E post \in {After(x, o, 0, r, o.bad \cup BadRelease(x, o, 0, blk[x]))} :
       /\ Commit(post, IF x = "a" THEN "destroyed" ELSE pc)
       /\ last' = [op |-> "~Vector", on |-> x, from |-> "none", arg |-> -1, val |-> 0,
                   fail |-> 0, ret |-> -1, threw |-> FALSE,
                   bad |-> post.bad, lost |-> o.lost, path |-> o.path, rt |-> "none"]
       /\ wlife' = IF pc' = "aborted" THEN "none"
                   ELSE IF x = "b" THEN "destroyed" ELSE wlife

\* ~Vector() of a, alone
DoDestroy ==
    /\ pc = "run"
    /\ LET o == Destructor(v)
       IN /\ v' = VectorDefault
          /\ last' = [op |-> "~Vector", on |-> "a", from |-> "none", arg |-> -1, val |-> 0,
                      fail |-> 0, ret |-> -1, threw |-> FALSE,
                      bad |-> o.bad, lost |-> o.lost, path |-> o.path, rt |-> "none"]
          /\ pc' \in IF o.bad = {} THEN {"destroyed"} ELSE {"destroyed", "aborted"}
    /\ UNCHANGED <<tkind, w, wlife, blk, heap>>
    /\ npush' = -1

Next ==
    \/ DoReserve
    \/ DoResize
    \/ DoPushBack
    \/ DoPopBack
    \/ DoInsert
    \/ DoErase
    \/ DoDestroy

Spec == Init /\ [][Next]_vars

\* PushBack only, from Vector() or Vector(n), up to MaxPushCap slots
InitPush == Init

NextPush == PushBackUpTo(MaxPushCap)

SpecPush == InitPush /\ [][NextPush]_vars

\* ---- two vectors -----------------------------------------------------------
\* a vector whose size_ has not wrapped and whose live slots are [0, size)
Valid(vec) == vec.size <= vec.cap /\ Defects(vec) = {}

\* calls are explored from the states where both objects are valid
WellFormed == Valid(v) /\ Valid(w)

Alive(x) == IF x = "a" THEN pc = "run" ELSE pc \in {"run", "destroyed"} /\ wlife = "alive"

\* the failures injected: the allocation, none, the first or the second
\* copy construction of the call
TwoFails == AllocFails..2

\* the value the calls of this specification pass (Vector(n) and Resize
\* supply DefaultVal)
TwoValues == {1}

\* the calls made on one vector, with their arguments: Reserve below, at and
\* above the capacity, Insert and Erase at every position of [begin, end]
\* and at the first one past end
Calls(vec) ==
    {[op |-> "Reserve", arg |-> n, val |-> 0, fail |-> f] :
        n \in {0, vec.cap} \cup (vec.cap + 1..MaxTwoCap), f \in TwoFails}
    \cup {[op |-> "Resize", arg |-> n, val |-> 0, fail |-> f] :
              n \in 0..MaxTwoCap, f \in TwoFails}
    \cup {[op |-> "PushBack", arg |-> -1, val |-> x, fail |-> f] :
              x \in TwoValues, f \in TwoFails}
    \cup {[op |-> "PopBack", arg |-> -1, val |-> 0, fail |-> 0]}
    \cup {[op |-> "Insert", arg |-> pos, val |-> x, fail |-> f] :
              pos \in 0..vec.size + 1, x \in TwoValues, f \in TwoFails}
    \cup {[op |-> "Erase", arg |-> pos, val |-> 0, fail |-> 0] : pos \in 0..vec.size + 1}

Call(kind, vec, c) ==
    CASE c.op = "Reserve" -> Reserve(kind, vec, c.arg, c.fail)
      [] c.op = "Resize" -> Resize(kind, vec, c.arg, c.fail)
      [] c.op = "PushBack" -> EmplaceBack(kind, vec, c.val, c.fail)
      [] c.op = "PopBack" -> PopBack(vec)
      [] c.op = "Insert" -> Emplace(kind, vec, c.arg, c.val, c.fail)
      [] c.op = "Erase" -> Erase(kind, vec, c.arg)

\* one call on a or on b; a failure is injected only where it is met.  The
\* record of the call keeps the operation and its result, not its arguments;
\* of a failure it keeps whether it was the allocation or a construction.
DoCall ==
    \E x \in {"a", "b"} :
       /\ Alive(x) /\ WellFormed
       /\ \E c \in Calls(Obj(x)) :
             /\ c.fail >= 2 => tkind = "copy"
             /\ \E o \in {Call(tkind, Obj(x), c)} :
                /\ c.fail = 0 \/ o.threw
                /\ o.vec.cap <= MaxTwoCap
                /\ StepOn(x, c.op, -1, "none", 0, IF c.fail = AllocFails THEN AllocFails ELSE 1,
                          [o EXCEPT !.ret = -1])
       /\ wlife' = IF pc' = "aborted" THEN "none" ELSE wlife
       /\ npush' = -1

\* Vector b; or Vector b(n);
DoConstruct ==
    /\ pc = "run" /\ wlife = "none" /\ WellFormed
    /\ \E n \in -1..MaxTwoCap :
          StepOn("b", "Vector", n, "none", 0, 0, SizedConstruct(Max(n, 0)))
    /\ wlife' = "alive"
    /\ npush' = -1

\* Vector b(a);
DoCopyConstruct ==
    /\ pc = "run" /\ wlife = "none" /\ WellFormed
    /\ \E fail \in TwoFails :
          \E o \in {CopyConstruct(v, fail)} :
             /\ fail = 0 \/ o.threw
             /\ StepOn("b", "CopyCtor", -1, "a", 0, fail, o)
             /\ wlife' = IF pc' = "aborted" \/ o.threw THEN "none" ELSE "alive"
    /\ npush' = -1

\* the record of a call that exchanges a and b
Exchanged(op, x, from) ==
    [op |-> op, on |-> x, from |-> from, arg |-> -1, val |-> 0, fail |-> 0, ret |-> -1,
     threw |-> FALSE, bad |-> {}, lost |-> 0, path |-> "swap", rt |-> "none"]

\* Vector b(std::move(a));
DoMoveConstruct ==
    /\ pc = "run" /\ wlife = "none" /\ WellFormed
    /\ LET s == MoveConstruct([vec |-> v, blk |-> blk.a])
       IN Commit(AfterSwap([this |-> s.other, other |-> s.this]), pc)
    /\ last' = Exchanged("MoveCtor", "b", "a")
    /\ wlife' = "alive"
    /\ npush' = -1

\* x = y; (x = x included)
DoCopyAssign ==
    /\ \E x \in {"a", "b"}, y \in {"a", "b"}, fail \in TwoFails :
          /\ Alive(x) /\ Alive(y) /\ WellFormed
          /\ \E o \in {CopyAssign(Obj(x), Obj(y), x = y, fail)} :
                /\ fail = 0 \/ o.threw
                /\ StepOn(x, "CopyAssign", -1, y, 0, fail, o)
    /\ wlife' = IF pc' = "aborted" THEN "none" ELSE wlife
    /\ npush' = -1

\* the handles of a and b, this being x
Handles(x) ==
    [this |-> [vec |-> Obj(x), blk |-> blk[x]],
     other |-> [vec |-> Obj(Peer(x)), blk |-> blk[Peer(x)]]]

\* a and b after an exchange s made on x
Sides(x, s) == IF x = "a" THEN s ELSE [this |-> s.other, other |-> s.this]

\* x = std::move(y); (x = std::move(x) included)
DoMoveAssign ==
    /\ pc = "run" /\ wlife = "alive" /\ WellFormed
    /\ \E x \in {"a", "b"}, y \in {"a", "b"} :
          /\ Commit(AfterSwap(Sides(x, MoveAssign(Handles(x).this, Handles(x).other, x = y))),
                    pc)
          /\ last' = Exchanged("MoveAssign", x, y)
    /\ UNCHANGED wlife
    /\ npush' = -1

\* x.Swap(y);
DoSwap ==
    /\ pc = "run" /\ wlife = "alive" /\ WellFormed
    /\ \E x \in {"a", "b"} :
          /\ Commit(AfterSwap(Sides(x, Swap(Handles(x).this, Handles(x).other))), pc)
          /\ last' = Exchanged("Swap", x, Peer(x))
    /\ UNCHANGED wlife
    /\ npush' = -1

DoDestroyFirst ==
    /\ Alive("a")
    /\ DestroyOn("a")
    /\ npush' = -1

DoDestroyOther ==
    /\ Alive("b")
    /\ DestroyOn("b")
    /\ npush' = -1

\* a holds no buffer (Vector(), Vector(0)) or the only buffer allocated
InitTwo ==
    /\ InitUpTo(MaxTwoCap)
    /\ blk = [a |-> IF v.cap = 0 THEN 0 ELSE 1, b |-> 0]
    /\ heap = IF v.cap = 0 THEN {} ELSE {1}

NextTwo ==
    \/ DoCall
    \/ DoConstruct
    \/ DoCopyConstruct
    \/ DoMoveConstruct
    \/ DoCopyAssign
    \/ DoMoveAssign
    \/ DoSwap
    \/ DoDestroyFirst
    \/ DoDestroyOther

SpecTwo == InitTwo /\ [][NextTwo]_vars

\* ---- views of the state ----------------------------------------------------
Size(vec) == vec.size
Capacity(vec) == vec.cap

\* the element values at [0, size), for a vector with size <= capacity
Elems(vec) == [i \in 1..vec.size |-> vec.slots[i - 1].val]

TypeOK ==
    /\ pc \in {"run", "aborted", "destroyed"}
    /\ wlife \in {"none", "alive", "destroyed"}
    /\ tkind \in TKinds
    /\ \A vec \in {v, w} :
          /\ vec.cap \in 0..Max(Max(MaxCap, MaxTwoCap), Max(MaxReserve, MaxPushCap))
          /\ vec.size \in 0..SizeModulus - 1
          /\ DOMAIN vec.slots = 0..vec.cap - 1
    /\ blk.a \in 0..1 /\ blk.b \in 0..2
    /\ heap \subseteq 1..4

\* ---- C1 -------------------------------------------------------------------
\* C1: after any sequence of operations with positions taken from
\* [begin, end], 0 <= Size() <= Capacity(); Size() never wraps below zero.
SizeWithinCapacity ==
    pc = "run" => (0 <= Size(v) /\ Size(v) <= Capacity(v))

\* ---- C2 -------------------------------------------------------------------
\* C2: after every completed operation exactly the slots [0, size) hold a
\* live element and every slot of [size, capacity) is raw.
LiveRange ==
    (pc = "run" /\ ~last.threw)
        => \A i \in 0..v.cap - 1 : v.slots[i].live <=> (i < v.size)


\* ---- C3 -------------------------------------------------------------------
\* C3: Resize(newSize) with newSize > size value-constructs elements in
\* exactly the slots [size, newSize): afterwards every index of [0, newSize)
\* holds a constructed element, the added ones hold the default value, and
\* no other slot was constructed in.
ResizeGrowConstructs ==
    [][(/\ last'.op = "Resize" /\ ~last'.threw /\ pc' = "run"
        /\ last'.arg > v.size /\ Defects(v) = {})
       => (/\ v'.size = last'.arg
           /\ \A i \in 0..v'.cap - 1 : v'.slots[i].live <=> (i < last'.arg)
           /\ \A i \in v.size..last'.arg - 1 : v'.slots[i].val = DefaultVal
           /\ "oob" \notin last'.bad)]_vars

\* ---- C4 -------------------------------------------------------------------
\* C4: when PushBack grows and the transfer of an existing element throws,
\* the new element and every transferred element are destroyed before the
\* exception propagates: nothing constructed in the discarded block is lost.
TransferThrowDestroysAll ==
    (last.op = "PushBack" /\ last.threw /\ last.path = "realloc" /\ last.fail >= 2)
        => last.lost = 0

\* ---- C5 -------------------------------------------------------------------
\* C5: a PushBack that throws (the new element's construction, or the copy of
\* an existing element on the growth path) leaves Size(), Capacity() and the
\* elements of [0, size) as they were.
AppendStrongGuarantee ==
    [][(last'.op = "PushBack" /\ last'.threw /\ pc' = "run")
       => (/\ Size(v') = Size(v)
           /\ Capacity(v') = Capacity(v)
           /\ Elems(v') = Elems(v))]_vars

\* a PushBack threw while copying an existing element into the new block
AppendThrewInTransfer ==
    /\ pc = "run" /\ last.op = "PushBack" /\ last.threw
    /\ last.path = "realloc" /\ last.fail = 3 /\ v.size = 2 /\ tkind = "copy"
    /\ Defects(v) = {}

\* ---- C6 -------------------------------------------------------------------
\* C6: every element constructed is destroyed exactly once: no operation
\* loses a live element, destroys or assigns to a slot that holds none, or
\* constructs over a live one.
ConstructDestroyPairing ==
    /\ last.lost = 0
    /\ last.bad \cap {"destroy_raw", "assign_raw", "construct_live", "oob"} = {}

\* ---- C7 -------------------------------------------------------------------
\* C7: Insert and Erase with a position outside [begin, end] return the end
\* position and change nothing: size, capacity, every slot and its liveness.
RejectedIsNoOp ==
    [][(last'.op \in {"Insert", "Erase"} /\ ~(last'.arg >= 0 /\ last'.arg <= v.size))
       => (/\ v' = v
           /\ last'.ret = v.size
           /\ ~last'.threw
           /\ last'.bad = {} /\ last'.lost = 0
           /\ pc' = "run")]_vars

\* an Erase one past end() of a non-empty vector was rejected
RejectedErasePastEnd ==
    /\ last.op = "Erase" /\ last.arg = v.size + 1 /\ v.size >= 1
    /\ last.path = "rejected"

\* ---- C8 -------------------------------------------------------------------
\* C8: Insert of any value at any index i of [0, size] followed by Erase at i
\* gives back the size and the element sequence the array had (the capacity
\* may have grown), on the reallocating and on the in-place path.
InsertEraseRoundTrip ==
    (pc = "run" /\ v.size <= v.cap)
        => \A idx \in 0..v.size, val \in Values :
              \A ins \in {Emplace(tkind, v, idx, val, 0).vec} :
              \A er \in {Erase(tkind, ins, idx).vec} :
                 /\ Size(er) = Size(v)
                 /\ Elems(er) = Elems(v)
                 /\ Capacity(er) >= Capacity(v)

\* an Erase undid a reallocating Insert in front of two elements of
\* different values
RoundTripDone ==
    /\ pc = "run" /\ last.op = "Erase" /\ last.rt = "realloc"
    /\ last.arg + 2 <= v.size
    /\ v.slots[last.arg].val # v.slots[last.arg + 1].val

\* ---- C9 -------------------------------------------------------------------
RECURSIVE PowerOfTwoFrom(_, _)
PowerOfTwoFrom(p, k) == IF p >= k THEN p ELSE PowerOfTwoFrom(2 * p, k)

\* the smallest of 1, 2, 4, 8, ... that is >= k
SmallestPowerOfTwo(k) == PowerOfTwoFrom(1, k)

\* C9: after the k-th PushBack on a default-constructed vector Size() = k and
\* Capacity() is the smallest power of two >= k; one append changes the
\* capacity only when size = capacity, and then to max(1, 2 * size).
PushBackGrowth ==
    /\ [](npush >= 1 => (Size(v) = npush /\ Capacity(v) = SmallestPowerOfTwo(npush)))
    /\ [][last'.op = "PushBack"
          => Capacity(v') = IF ~last'.threw /\ Size(v) = Capacity(v)
                            THEN Max(1, 2 * Size(v)) ELSE Capacity(v)]_vars

\* the fifth PushBack grew the block from 4 to 8 slots
FifthPushGrew ==
    /\ npush = 5 /\ last.op = "PushBack" /\ last.path = "realloc"
    /\ Capacity(v) = 8 /\ Size(v) = 5

\* ---- C10 ------------------------------------------------------------------
\* C10: Insert of val at a valid index i gives a[0..i-1], val, a[i..size-1]:
\* the size grows by one, the old elements keep their order and values, the
\* returned position is i, the capacity is unchanged when size < capacity
\* and max(1, 2 * size) otherwise.
InsertPlacesValue ==
    [][(/\ last'.op = "Insert" /\ ~last'.threw /\ pc' = "run"
        /\ last'.arg >= 0 /\ last'.arg <= v.size)
       => LET i == last'.arg
              a == Elems(v)
          IN /\ Size(v') = Size(v) + 1
             /\ Elems(v') = SubSeq(a, 1, i) \o <<last'.val>> \o SubSeq(a, i + 1, v.size)
             /\ last'.ret = i
             /\ Capacity(v') = IF Size(v) < Capacity(v) THEN Capacity(v)
                               ELSE Max(1, 2 * Size(v))]_vars

\* an in-place Insert between two elements of different values
InsertedInTheMiddle ==
    /\ pc = "run" /\ last.op = "Insert" /\ ~last.threw /\ last.path = "inplace"
    /\ last.arg >= 1 /\ last.arg + 2 <= v.size
    /\ v.slots[last.arg - 1].val # v.slots[last.arg + 1].val

\* C11: Erase at a valid index i of [0, size) removes exactly the element at
\* i: the sequence becomes a[0..i-1] followed by a[i+1..], the size drops by
\* one, the capacity is unchanged and the returned position is i.
EraseRemovesElement ==
    [][(/\ last'.op = "Erase" /\ pc' = "run"
        /\ last'.arg >= 0 /\ last'.arg < v.size)
       => LET i == last'.arg
          IN /\ Size(v') = Size(v) - 1
             /\ Elems(v') = SubSeq(Elems(v), 1, i) \o SubSeq(Elems(v), i + 2, Size(v))
             /\ Capacity(v') = Capacity(v)
             /\ last'.ret = i]_vars

\* an Erase in the middle, between two elements of different values
ErasedInTheMiddle ==
    /\ last.op = "Erase" /\ pc = "run"
    /\ last.arg >= 1 /\ last.arg < v.size /\ v.size <= v.cap
    /\ v.slots[last.arg - 1].val # v.slots[last.arg].val

\* C12: after Resize(n) the size is n and the elements at [0, min(s, n)) keep
\* their values; when n < s the elements at [n, s) are destroyed and the
\* capacity is unchanged.
ResizeSetsSize ==
    [][(last'.op = "Resize" /\ ~last'.threw /\ pc' = "run")
       => LET n == last'.arg
              s == v.size
          IN /\ Size(v') = n
             /\ \A i \in 0..(IF s < n THEN s ELSE n) - 1 :
                    v'.slots[i].val = v.slots[i].val
             /\ n < s => /\ Capacity(v') = Capacity(v)
                         /\ \A i \in n..s - 1 : ~v'.slots[i].live]_vars

\* a Resize that cut a tail off and kept a pushed value
ResizeShrunk ==
    /\ last.op = "Resize" /\ last.path = "shrink" /\ pc = "run"
    /\ v.size >= 1 /\ v.cap > v.size
    /\ v.slots[0].val \in Values
    /\ ~v.slots[v.size].live

\* C16: Reserve(n) changes nothing when n <= Capacity(); otherwise the
\* capacity becomes exactly n, and the size and the element values are as
\* before; the capacity never decreases.
ReserveExact ==
    [][(last'.op = "Reserve" /\ ~last'.threw /\ pc' = "run")
       => LET n == last'.arg
          IN /\ n <= Capacity(v) => v' = v
             /\ n > Capacity(v) => /\ Capacity(v') = n
                                   /\ Size(v') = Size(v)
                                   /\ Elems(v') = Elems(v)
             /\ Capacity(v') >= Capacity(v)]_vars

\* a Reserve that moved at least one pushed element to a larger block that is
\* not twice the old one
ReserveGrew ==
    /\ last.op = "Reserve" /\ last.path = "realloc" /\ ~last.threw /\ pc = "run"
    /\ v.size >= 1 /\ v.cap = last.arg /\ v.cap = 3
    /\ v.slots[0].val \in Values

\* C17: on the reallocating path of Insert with elements transferred by
\* copy, a copy that throws in the prefix or in the suffix leaves no element
\* of the new block alive and destroys none twice, and the vector keeps its
\* size, capacity and elements.
EmplaceFailureCleansNewBlock ==
    [][(/\ last'.op = "Insert" /\ last'.path = "realloc"
        /\ last'.threw /\ last'.fail >= 2 /\ pc' = "run")
       => (/\ v' = v
           /\ last'.lost = 0
           /\ "destroy_raw" \notin last'.bad)]_vars

\* a copy of the suffix threw after a prefix of at least one element was
\* transferred
EmplaceSuffixCopyThrew ==
    /\ last.op = "Insert" /\ last.path = "realloc" /\ last.threw /\ pc = "run"
    /\ last.arg >= 1 /\ last.fail - 1 > last.arg
    /\ v.size = v.cap

\* C19: every slot that is constructed, assigned, read or destroyed has an
\* index below the capacity of its block.
SlotAccessInBounds == "oob" \notin last.bad

\* the object x after the step
ObjNext(x) == IF x = "a" THEN v' ELSE w'

\* C13: b copy-constructed from a has the size and the element values of a
\* and, when it has elements, a buffer of its own; a is unchanged by the
\* copy; and a call made on one of two objects leaves the other one as it
\* was.
CopyIsDeep ==
    [][/\ (last'.op = "CopyCtor" /\ ~last'.threw /\ pc' = "run")
          => (/\ Size(w') = Size(v)
              /\ Elems(w') = Elems(v)
              /\ v' = v
              /\ Size(v) > 0 => (blk'.b # 0 /\ blk'.b # blk'.a /\ blk'.b \in heap'))
       /\ (/\ wlife = "alive" /\ wlife' = "alive" /\ pc = "run" /\ pc' = "run"
           /\ last'.from = "none")
          => ObjNext(Peer(last'.on)) = Obj(Peer(last'.on))]_vars

\* b is a copy of a with elements, and a call on b has just changed b
CopyThenMutated ==
    /\ pc = "run" /\ wlife = "alive"
    /\ last.on = "b" /\ last.op = "PushBack" /\ ~last.threw
    /\ v.size >= 1 /\ w.size = v.size + 1
    /\ \A i \in 0..v.size - 1 : w.slots[i].val = v.slots[i].val /\ v.slots[i].val \in TwoValues

\* C14: b move-constructed from a has the size, the capacity and the slots a
\* had, in the buffer a held: nothing is allocated, released, constructed or
\* destroyed; a is left with size 0, capacity 0 and no buffer.
MoveTransfers ==
    [][(last'.op = "MoveCtor" /\ pc' = "run")
       => (/\ w' = v
           /\ v' = VectorDefault
           /\ blk'.a = 0
           /\ (blk'.b # 0) = (blk.a # 0)
           /\ Cardinality(heap') = Cardinality(heap)
           /\ blk'.b # 0 => blk'.b \in heap'
           /\ last'.lost = 0 /\ last'.bad = {})]_vars

\* b took over a block with spare capacity and a pushed element
MovedWithElements ==
    /\ last.op = "MoveCtor" /\ pc = "run" /\ wlife = "alive"
    /\ w.size >= 1 /\ w.cap > w.size /\ w.slots[0].val \in TwoValues
    /\ v = VectorDefault

\* C15: x = y leaves x with the size and the element values of y and y
\* unchanged; with y.size <= x.capacity it works in x's buffer and the
\* capacity of x is unchanged; with y.size > x.capacity x holds a new buffer
\* of capacity y.size; x = x changes nothing.
CopyAssignSemantics ==
    [][(last'.op = "CopyAssign" /\ ~last'.threw /\ pc' = "run")
       => LET x == last'.on
              y == last'.from
          IN IF x = y
             THEN v' = v /\ w' = w /\ blk' = blk /\ heap' = heap
             ELSE /\ Size(ObjNext(x)) = Size(Obj(y))
                  /\ Elems(ObjNext(x)) = Elems(Obj(y))
                  /\ ObjNext(y) = Obj(y)
                  /\ Obj(y).size <= Obj(x).cap
                        => (/\ Capacity(ObjNext(x)) = Capacity(Obj(x))
                            /\ blk' = blk /\ heap' = heap)
                  /\ Obj(y).size > Obj(x).cap
                        => (/\ Capacity(ObjNext(x)) = Obj(y).size
                            /\ blk'[x] # 0 /\ blk'[x] # blk'[y]
                            /\ blk'[x] \in heap')]_vars

\* an assignment in place that destroyed the surplus of the left side
AssignedInPlace ==
    /\ last.op = "CopyAssign" /\ last.path = "copy_from" /\ ~last.threw
    /\ last.on = "a" /\ last.from = "b" /\ pc = "run" /\ wlife = "alive"
    /\ v.size = 1 /\ v.cap = 2 /\ w.size = 1 /\ v.slots[0].val \in TwoValues
    /\ v.slots[1] = RawSlot

\* C18: a call whose allocation fails throws before it constructs, moves,
\* copies or destroys any element: both objects, their buffers and the
\* allocated buffers are as before the call.
AllocFailureChangesNothing ==
    [][(last'.threw /\ last'.fail = AllocFails)
       => (/\ v' = v /\ w' = w
           /\ blk' = blk /\ heap' = heap
           /\ pc' = pc
           /\ last'.bad = {} /\ last'.lost = 0)]_vars

\* the allocation of a PushBack failed on a full vector with elements
AllocFailedOnFullVector ==
    /\ last.threw /\ last.fail = AllocFails /\ last.op = "PushBack"
    /\ last.on = "a" /\ pc = "run"
    /\ v.size >= 1 /\ v.size = v.cap

\* C20: each object holds one buffer (or none, with capacity 0); no buffer
\* is held by both objects; the buffers allocated and not released are
\* exactly the buffers the objects hold, so that none is left once the
\* objects are destroyed; no buffer is released twice and none is held
\* after its release.
BlockOwnership ==
    /\ blk.a # 0 => blk.a # blk.b
    /\ heap = {blk.a, blk.b} \ {0}
    /\ pc = "run" => ((blk.a = 0) = (v.cap = 0))
    /\ (pc # "aborted" /\ wlife = "alive") => ((blk.b = 0) = (w.cap = 0))
    /\ (pc = "destroyed" /\ wlife # "alive") => heap = {}
    /\ "double_free" \notin last.bad
    /\ "use_after_free" \notin last.bad

\* a reallocation failed while both objects held a buffer
FailedReallocationKeptBlocks ==
    /\ last.threw /\ last.path = "realloc" /\ pc = "run" /\ wlife = "alive"
    /\ blk = [a |-> 1, b |-> 2] /\ heap = {1, 2}
    /\ v.size >= 1 /\ w.size >= 1

====
